---- MODULE Spec2Model ----
(***************************************************************************)
(* MyTodo: tabs of ordered text items with one linear undo/redo history.   *)
(*                                                                         *)
(* The model follows the widgets that hold the program's state: the tab    *)
(* widget (tab order, labels, current tab), one list widget per tab (the   *)
(* rows with their text), the text editor that has keyboard focus, and the *)
(* QUndoStack shared by all lists, and the TOML file with the AppData that  *)
(* is loaded from it and saved to it.  Indices are 0-based as in the       *)
(* source; a text is a sequence of characters so that str.strip() and the  *)
(* escapes of TOML strings are computed.                                   *)
(***************************************************************************)
EXTENDS Integers, Sequences, FiniteSets, TLC

VARIABLES
    tabs,          \* QTabWidget: sequence of [widget, label] in tab order
    rows,          \* per list widget: the texts of its rows (UserRole data)
    currentIndex,  \* QTabWidget.currentIndex()
    focus,         \* the ItemTextEdit holding focus: NoFocus or [lw, row, original]
    stack,         \* QUndoStack: the commands
    index,         \* QUndoStack.index(): commands [1..index] are applied
    shadow,        \* history: per command, the document before and after its first redo()
    phase,         \* history: what happened since the most recent push
    pushed,        \* history: how many commands were pushed
    others,        \* history: how many changes were made without a command
    file,          \* the TOML file at storage.DEFAULT_PATH
    app_data       \* MainWindow._app_data: the AppData loaded, and rebuilt by each save

vars ==
    <<tabs, rows, currentIndex, focus, stack, index, shadow, phase, pushed, others,
      file, app_data>>

-----------------------------------------------------------------------------
(* Bounds of the model *)

MaxLists == 3      \* list widgets that can exist
MaxItems == 2      \* rows a gesture may grow a list to, rows of the longest stored list
MaxCmds == 2       \* commands pushed in one run
MaxOther == 1      \* changes made without a command
MoveLen == 4       \* rows of the longest list whose rows are moved (SpecMove)
MaxStored == 2     \* lists of a stored document, and items of a stored list (SpecStorage)

LwIds == 1..MaxLists

(* Texts *)
SP == " "
EMPTY == <<>>
A == <<"a">>
B == <<"b">>
C == <<"c">>
D == <<"d">>
X == <<"x">>
ASP == <<"a", SP>>
TypedTexts == {ASP}             \* what the user types into an editor
ForeignTexts == {X}             \* text dragged in from another process
L1 == <<"L", "1">>
L2 == <<"L", "2">>
MyList == <<"M", "y", SP, "l", "i", "s", "t">>
TypedNames == {L1, <<SP, "L", "2">>, <<SP>>}

NoFocus == [lw |-> 0]

(* Characters that TOML escapes in a basic string *)
QUOTE == "\""
BSL == "\\"
NL == "\n"

-----------------------------------------------------------------------------
(* Python / Qt primitives *)

RECURSIVE lstrip(_)
lstrip(t) == IF t # <<>> /\ Head(t) = SP THEN lstrip(Tail(t)) ELSE t

RECURSIVE rstrip(_)
rstrip(t) == IF t # <<>> /\ t[Len(t)] = SP THEN rstrip(SubSeq(t, 1, Len(t) - 1)) ELSE t

strip(t) == rstrip(lstrip(t))

InRange(s, i) == 0 <= i /\ i < Len(s)

\* QListWidget.takeItem(i) / QTabWidget.removeTab(i): nothing happens out of range
takeItem(s, i) ==
    IF InRange(s, i) THEN SubSeq(s, 1, i) \o SubSeq(s, i + 2, Len(s)) ELSE s

\* QListWidget.insertItem(i, item) / QTabWidget.insertTab(i, ..): the index is clamped
insertItem(s, i, x) ==
    LET k == IF i < 0 THEN 0 ELSE IF i > Len(s) THEN Len(s) ELSE i
    IN  SubSeq(s, 1, k) \o <<x>> \o SubSeq(s, k + 1, Len(s))

-----------------------------------------------------------------------------
(* TodoListWidget helpers, on the row sequence s of one list widget *)

set_item_text_first_row(s, i, text) ==
    IF InRange(s, i) THEN [s EXCEPT ![1] = text] ELSE s

set_item_text(s, i, text) ==
    IF InRange(s, i) THEN [s EXCEPT ![i + 1] = text] ELSE s

_move_row_unadjusted(s, from_index, to_index) ==
    IF ~InRange(s, from_index) THEN s
    ELSE insertItem(takeItem(s, from_index), to_index, s[from_index + 1])

\* item(from_index) is None out of range and item.data raises before takeItem
_move_row(s, from_index, to_index) ==
    IF ~InRange(s, from_index) THEN s
    ELSE LET text == s[from_index + 1]
             actual_to == IF to_index <= from_index THEN to_index ELSE to_index - 1
         IN  insertItem(takeItem(s, from_index), actual_to, text)

move_item_to_top_to_end(s, i) == _move_row(s, i, Len(s))

move_item_to_top(s, i) == IF i = 0 THEN s ELSE _move_row(s, i, 0)

move_item_from_top(s, original_index) == _move_row(s, 0, original_index)

reorder_item(s, from_index, to_index) == _move_row(s, from_index, to_index)

append_item(s, text) == Append(s, text)

remove_last_item(s) == IF Len(s) > 0 THEN takeItem(s, Len(s) - 1) ELSE s

remove_item_front(s, i) == takeItem(s, 0)

remove_item(s, i) == takeItem(s, i)

insert_item_clamped_low(s, i, text) == insertItem(s, i - 1, text)

insert_item(s, i, text) == insertItem(s, i, text)

-----------------------------------------------------------------------------
(* MainWindow helpers, on a window w = [tabs, rows, currentIndex] *)

_list_widget_at(w, tab_index) ==
    IF InRange(w.tabs, tab_index) THEN w.tabs[tab_index + 1].widget ELSE 0

indexOf(w, lw) ==
    IF \E k \in 1..Len(w.tabs) : w.tabs[k].widget = lw
    THEN (CHOOSE k \in 1..Len(w.tabs) : w.tabs[k].widget = lw) - 1
    ELSE -1

move_tab_to_front_preremoval(w, from_index, to_index) ==
    IF from_index = to_index \/ ~InRange(w.tabs, from_index) THEN w
    ELSE [w EXCEPT !.tabs = insertItem(takeItem(w.tabs, from_index),
                                       IF to_index > from_index THEN to_index - 1 ELSE to_index,
                                       w.tabs[from_index + 1]),
                   !.currentIndex = to_index]

\* widget(from_index) is None out of range: removeTab and insertTab then do nothing
move_tab_to_front(w, from_index, to_index) ==
    IF from_index = to_index THEN w
    ELSE IF ~InRange(w.tabs, from_index)
         THEN [w EXCEPT !.currentIndex =
                   IF InRange(w.tabs, to_index) THEN to_index ELSE w.currentIndex]
         ELSE [w EXCEPT !.tabs = insertItem(takeItem(w.tabs, from_index), to_index,
                                            w.tabs[from_index + 1]),
                        !.currentIndex = to_index]

rename_tab(w, i, new_name) ==
    IF InRange(w.tabs, i) THEN [w EXCEPT !.tabs[i + 1].label = new_name] ELSE w

transfer_item_keep_source(w, from_list, from_item, to_list, to_item, text) ==
    LET dst == _list_widget_at(w, to_list)
    IN  IF dst = 0 THEN w
        ELSE [w EXCEPT !.rows[dst] = insert_item(w.rows[dst], to_item, text)]

\* src or dst None raises at its first use: before the removal, or between the
\* removal and the insertion
transfer_item(w, from_list, from_item, to_list, to_item, text) ==
    LET src == _list_widget_at(w, from_list)
        dst == _list_widget_at(w, to_list)
    IN  IF src = 0 THEN w
        ELSE LET w1 == [w EXCEPT !.rows[src] = remove_item(w.rows[src], from_item)]
             IN  IF dst = 0 THEN w1
                 ELSE [w1 EXCEPT !.rows[dst] = insert_item(w1.rows[dst], to_item, text)]

-----------------------------------------------------------------------------
(* The QUndoCommand subclasses: redo() and undo() on a window w *)

EditItemCommand(lw, i, old, new) ==
    [kind |-> "EditItem", list_widget |-> lw, item_index |-> i,
     old_text |-> old, new_text |-> new]
MoveItemToTopCommand(lw, i) ==
    [kind |-> "MoveItemToTop", list_widget |-> lw, item_index |-> i]
ReorderItemCommand(lw, from_index, to_index) ==
    [kind |-> "ReorderItem", list_widget |-> lw, from_index |-> from_index,
     to_index |-> to_index]
MoveItemBetweenListsCommand(from_list, from_item, to_list, to_item, text) ==
    [kind |-> "MoveItemBetweenLists", from_list |-> from_list, from_item |-> from_item,
     to_list |-> to_list, to_item |-> to_item, text |-> text]
MoveListToFrontCommand(i) ==
    [kind |-> "MoveListToFront", list_index |-> i]
AddItemCommand(lw, text) ==
    [kind |-> "AddItem", list_widget |-> lw, text |-> text]
DeleteItemCommand(lw, i, text) ==
    [kind |-> "DeleteItem", list_widget |-> lw, item_index |-> i, text |-> text]
RenameTabCommand(i, old, new) ==
    [kind |-> "RenameTab", index |-> i, old_name |-> old, new_name |-> new]

OnList(w, lw, s) == [w EXCEPT !.rows[lw] = s]

redo(c, w) ==
    CASE c.kind = "EditItem" ->
           OnList(w, c.list_widget, set_item_text(w.rows[c.list_widget], c.item_index, c.new_text))
      [] c.kind = "MoveItemToTop" ->
           OnList(w, c.list_widget, move_item_to_top(w.rows[c.list_widget], c.item_index))
      [] c.kind = "ReorderItem" ->
           OnList(w, c.list_widget,
                  reorder_item(w.rows[c.list_widget], c.from_index, c.to_index))
      [] c.kind = "MoveItemBetweenLists" ->
           transfer_item(w, c.from_list, c.from_item, c.to_list, c.to_item, c.text)
      [] c.kind = "MoveListToFront" -> move_tab_to_front(w, c.list_index, 0)
      [] c.kind = "AddItem" ->
           OnList(w, c.list_widget, append_item(w.rows[c.list_widget], c.text))
      [] c.kind = "DeleteItem" ->
           OnList(w, c.list_widget, remove_item(w.rows[c.list_widget], c.item_index))
      [] c.kind = "RenameTab" -> rename_tab(w, c.index, c.new_name)

undo(c, w) ==
    CASE c.kind = "EditItem" ->
           OnList(w, c.list_widget, set_item_text(w.rows[c.list_widget], c.item_index, c.old_text))
      [] c.kind = "MoveItemToTop" ->
           OnList(w, c.list_widget, move_item_from_top(w.rows[c.list_widget], c.item_index))
      [] c.kind = "ReorderItem" ->
           OnList(w, c.list_widget,
                  reorder_item(w.rows[c.list_widget], c.to_index, c.from_index))
      [] c.kind = "MoveItemBetweenLists" ->
           transfer_item(w, c.to_list, c.to_item, c.from_list, c.from_item, c.text)
      [] c.kind = "MoveListToFront" -> move_tab_to_front(w, 0, c.list_index)
      [] c.kind = "AddItem" ->
           OnList(w, c.list_widget, remove_last_item(w.rows[c.list_widget]))
      [] c.kind = "DeleteItem" ->
           OnList(w, c.list_widget,
                  insert_item(w.rows[c.list_widget], c.item_index, c.text))
      [] c.kind = "RenameTab" -> rename_tab(w, c.index, c.old_name)

-----------------------------------------------------------------------------
(* QUndoStack, on an application state a = the window plus stack, index, shadow *)

Doc(a) == [tabs |-> a.tabs, rows |-> a.rows]

Window(a) == [tabs |-> a.tabs, rows |-> a.rows, currentIndex |-> a.currentIndex]

WithWindow(a, w) ==
    [a EXCEPT !.tabs = w.tabs, !.rows = w.rows, !.currentIndex = w.currentIndex]

push_keep_tail(a, cmd) ==
    LET b == WithWindow(a, redo(cmd, Window(a)))
    IN  [b EXCEPT !.stack = SubSeq(a.stack, 1, a.index) \o <<cmd>>
                             \o SubSeq(a.stack, a.index + 1, Len(a.stack)),
                  !.shadow = SubSeq(a.shadow, 1, a.index)
                             \o <<[pre |-> Doc(a), post |-> Doc(b)]>>
                             \o SubSeq(a.shadow, a.index + 1, Len(a.shadow)),
                  !.index = a.index + 1]

\* push(cmd): cmd.redo(), drop the commands above index, append, index + 1
push(a, cmd) ==
    LET b == WithWindow(a, redo(cmd, Window(a)))
    IN  [b EXCEPT !.stack = Append(SubSeq(a.stack, 1, a.index), cmd),
                  !.shadow = Append(SubSeq(a.shadow, 1, a.index),
                                    [pre |-> Doc(a), post |-> Doc(b)]),
                  !.index = a.index + 1]

stack_undo_oldest(a) ==
    IF a.index = 0 THEN a
    ELSE [WithWindow(a, undo(a.stack[1], Window(a))) EXCEPT !.index = a.index - 1]

stack_undo(a) ==
    IF a.index = 0 THEN a
    ELSE [WithWindow(a, undo(a.stack[a.index], Window(a))) EXCEPT !.index = a.index - 1]

stack_redo(a) ==
    IF a.index = Len(a.stack) THEN a
    ELSE [WithWindow(a, redo(a.stack[a.index + 1], Window(a))) EXCEPT !.index = a.index + 1]

-----------------------------------------------------------------------------
(* data.py and storage.py.  An AppData is the sequence of its TodoLists, each a
   [name, items].  The file is NoFile or [exists, readable, lines]; a line of the
   TOML text is [t, key, value]: the header [[lists]], or key = value where the
   value is a basic string (its characters, quotes included) or an array of
   basic strings.                                                            *)

add_list_dropped(app, name) == app

add_list(app, name) == Append(app, [name |-> name, items |-> <<>>])

NoFile == [exists |-> FALSE, readable |-> FALSE, lines |-> <<>>]

TableLine == [t |-> "table", key |-> "lists", value |-> <<>>]
KeyLine(key, value) == [t |-> "key", key |-> key, value |-> value]
JunkLine == [t |-> "junk", key |-> "", value |-> <<>>]

\* tomli_w: backslash, quote and newline are written as escapes
RECURSIVE escape(_)
escape(t) ==
    IF t = <<>> THEN <<>>
    ELSE (CASE Head(t) = BSL -> <<BSL, BSL>>
            [] Head(t) = QUOTE -> <<BSL, QUOTE>>
            [] Head(t) = NL -> <<BSL, "n">>
            [] OTHER -> <<Head(t)>>) \o escape(Tail(t))

basic_string_raw(t) == <<QUOTE>> \o t \o <<QUOTE>>

basic_string(t) == <<QUOTE>> \o escape(t) \o <<QUOTE>>

\* tomli_w.dump of {"lists": [{"name": .., "items": ..}, ..]}
RECURSIVE dump_tables(_)
dump_tables(lists) ==
    IF lists = <<>> THEN <<>>
    ELSE <<TableLine,
           KeyLine("name", basic_string(Head(lists).name)),
           KeyLine("items", [k \in 1..Len(Head(lists).items) |->
                                basic_string(Head(lists).items[k])])>>
         \o dump_tables(Tail(lists))

dump(lists) == IF lists = <<>> THEN <<KeyLine("lists", <<>>)>> ELSE dump_tables(lists)

\* storage.save: the file is opened for writing and the whole document is written
save(app) == [exists |-> TRUE, readable |-> TRUE, lines |-> dump(app)]

\* tomllib: the body of a basic string, between the quotes
RECURSIVE valid_escaped(_)
valid_escaped(e) ==
    IF e = <<>> THEN TRUE
    ELSE IF Head(e) = BSL
         THEN Len(e) >= 2 /\ e[2] \in {BSL, QUOTE, "n"} /\ valid_escaped(Tail(Tail(e)))
         ELSE Head(e) \notin {QUOTE, NL} /\ valid_escaped(Tail(e))

RECURSIVE unescape(_)
unescape(e) ==
    IF e = <<>> THEN <<>>
    ELSE IF Head(e) = BSL
         THEN <<IF e[2] = "n" THEN NL ELSE e[2]>> \o unescape(Tail(Tail(e)))
         ELSE <<Head(e)>> \o unescape(Tail(e))

valid_basic_string(v) ==
    /\ Len(v) >= 2
    /\ v[1] = QUOTE
    /\ v[Len(v)] = QUOTE
    /\ valid_escaped(SubSeq(v, 2, Len(v) - 1))

parse_basic_string(v) == unescape(SubSeq(v, 2, Len(v) - 1))

\* tomllib.load: the lines that make no TOML document raise TOMLDecodeError
well_formed(lines) ==
    LET tables == {i \in 1..Len(lines) : lines[i].t = "table"}
        table_of(i) == Cardinality({h \in tables : h <= i})
    IN  /\ \A i \in 1..Len(lines) :
              \/ lines[i].t = "table"
              \/ /\ lines[i].t = "key"
                 /\ lines[i].key = "name" => valid_basic_string(lines[i].value)
                 /\ lines[i].key = "items" =>
                       \A k \in 1..Len(lines[i].value) : valid_basic_string(lines[i].value[k])
                 /\ \A h \in 1..(i - 1) :
                       ~(lines[h].t = "key" /\ lines[h].key = lines[i].key
                         /\ table_of(h) = table_of(i))
        /\ tables # {} =>
              \A i \in 1..Len(lines) :
                 ~(lines[i].t = "key" /\ lines[i].key = "lists" /\ table_of(i) = 0)

\* raw.get("lists", []): one table per [[lists]] header, with the keys below it
raw_lists(lines) ==
    LET tables == {i \in 1..Len(lines) : lines[i].t = "table"}
        table_of(i) == Cardinality({h \in tables : h <= i})
    IN  [j \in 1..Cardinality(tables) |->
           LET keys == {i \in 1..Len(lines) : lines[i].t = "key" /\ table_of(i) = j}
               has(key) == \E i \in keys : lines[i].key = key
               line(key) == lines[CHOOSE i \in keys : lines[i].key = key]
           IN  [name |-> IF has("name") THEN parse_basic_string(line("name").value)
                         ELSE EMPTY,
                items |-> IF has("items")
                          THEN [k \in 1..Len(line("items").value) |->
                                  parse_basic_string(line("items").value[k])]
                          ELSE <<>>]]

Returned(lists) == [ok |-> TRUE, raised |-> "", lists |-> lists]
Raised(exception) == [ok |-> FALSE, raised |-> exception, lists |-> <<>>]

\* storage.load: only a missing file is handled; open() and tomllib.load raise
load(f) ==
    IF ~f.exists THEN Returned(<<>>)
    ELSE IF ~f.readable THEN Raised("PermissionError")
    ELSE IF ~well_formed(f.lines) THEN Raised("TOMLDecodeError")
    ELSE Returned(raw_lists(f.lines))

\* TodoListWidget.all_texts: the data of every row, "" where it is empty
all_texts(s) == [k \in 1..Len(s) |-> IF s[k] = EMPTY THEN EMPTY ELSE s[k]]

_sync_data_model_keep(app, w) ==
    app \o [k \in 1..Len(w.tabs) |->
              [name |-> w.tabs[k].label, items |-> all_texts(w.rows[w.tabs[k].widget])]]

\* MainWindow._sync_data_model: the lists are cleared and rebuilt from the tabs
_sync_data_model(app, w) ==
    [k \in 1..Len(w.tabs) |->
       [name |-> w.tabs[k].label, items |-> all_texts(w.rows[w.tabs[k].widget])]]

-----------------------------------------------------------------------------
(* The running application *)

App ==
    [tabs |-> tabs, rows |-> rows, currentIndex |-> currentIndex,
     stack |-> stack, index |-> index, shadow |-> shadow]

SetApp(a) ==
    /\ tabs' = a.tabs
    /\ rows' = a.rows
    /\ currentIndex' = a.currentIndex
    /\ stack' = a.stack
    /\ index' = a.index
    /\ shadow' = a.shadow

\* phase follows the most recently pushed command: "done" right after its push,
\* "undone" and "redone" when undo and then redo follow at once, "touched" when only
\* changes without a command followed, "touchedUndone" when undo follows those
Note(k) ==
    /\ phase' = CASE k = "push" -> "done"
                  [] k = "undo" -> IF phase = "done" THEN "undone"
                                   ELSE IF phase = "touched" THEN "touchedUndone"
                                   ELSE "idle"
                  [] k = "redo" -> IF phase = "undone" THEN "redone" ELSE "idle"
                  [] k = "other" -> IF phase \in {"done", "touched"} THEN "touched"
                                    ELSE "idle"
    /\ pushed' = IF k = "push" THEN pushed + (index' - index) ELSE pushed

Quiet == UNCHANGED <<phase, pushed>>

NoteOther ==
    /\ others < MaxOther
    /\ others' = others + 1
    /\ Note("other")

_current_list_widget == _list_widget_at(Window(App), currentIndex)

CanPush == pushed < MaxCmds

Idle == focus = NoFocus

\* the files the program starts from: none, or one that an earlier run saved
StartFiles ==
    { NoFile,
      save(<<[name |-> L1, items |-> SubSeq(<<A, B, C, A>>, 1, MaxItems)],
             [name |-> L2, items |-> <<A>>]>>) }

\* what storage.load() returns for them
LoadedFiles == { load(f).lists : f \in StartFiles }

\* MainWindow.__init__ and _load_data: an empty document is seeded with one list
Init ==
    \E f \in StartFiles :
       LET lists == IF load(f).lists = <<>> THEN add_list(<<>>, MyList) ELSE load(f).lists
       IN  /\ load(f).ok
           /\ load(f).lists \in LoadedFiles
           /\ file = f
           /\ app_data = lists
           /\ tabs = [k \in 1..Len(lists) |-> [widget |-> k, label |-> lists[k].name]]
           /\ rows = [lw \in LwIds |-> IF lw <= Len(lists) THEN lists[lw].items ELSE <<>>]
           /\ currentIndex = 0
           /\ focus = NoFocus
           /\ stack = <<>>
           /\ index = 0
           /\ shadow = <<>>
           /\ phase = "idle"
           /\ pushed = 0
           /\ others = 0

-----------------------------------------------------------------------------
(* Editing an item's text *)

\* ItemTextEdit.focusInEvent: remember the text the edit starts from
FocusIn(i) ==
    /\ Idle /\ CanPush
    /\ InRange(rows[_current_list_widget], i)
    /\ focus' = [lw |-> _current_list_widget, row |-> i,
                 original |-> rows[_current_list_widget][i + 1]]
    /\ UNCHANGED <<tabs, rows, currentIndex, stack, index, shadow, phase, pushed, others,
                 file, app_data>>

\* typing: _on_text_changed keeps the row's data equal to the live text
Type(t) ==
    /\ ~Idle
    /\ CanPush
    /\ rows[focus.lw][focus.row + 1] # t
    /\ rows' = [rows EXCEPT ![focus.lw][focus.row + 1] = t]
    /\ IF strip(t) = focus.original
       THEN NoteOther
       ELSE Note("other") /\ UNCHANGED others
    /\ UNCHANGED <<tabs, currentIndex, focus, stack, index, shadow, file, app_data>>

\* ItemTextEdit.focusOutEvent -> edit_committed(old, new) -> TodoListWidget._on_edit
_on_edit(a, f) ==
    LET new_text == strip(a.rows[f.lw][f.row + 1])
    IN  IF new_text # f.original
        THEN push([a EXCEPT !.rows[f.lw][f.row + 1] = new_text],
                  EditItemCommand(f.lw, f.row, f.original, new_text))
        ELSE a

focusOutEvent ==
    /\ SetApp(_on_edit(App, focus))
    /\ focus' = NoFocus
    /\ IF index' # index THEN Note("push") ELSE Quiet
    /\ UNCHANGED <<others, file, app_data>>

\* the user clicks elsewhere
FocusOut ==
    /\ ~Idle
    /\ focusOutEvent

\* Escape: editing_cancelled is connected to the list's setFocus, so the editor
\* loses focus and its focusOutEvent runs
EscapePressed ==
    /\ ~Idle
    /\ focusOutEvent

-----------------------------------------------------------------------------
(* Gestures on the rows of the current list *)

\* HotZone double click -> TodoListWidget._on_promote
Promote(i) ==
    /\ Idle /\ CanPush
    /\ InRange(rows[_current_list_widget], i)
    /\ SetApp(push(App, MoveItemToTopCommand(_current_list_widget, i)))
    /\ Note("push")
    /\ UNCHANGED <<focus, others, file, app_data>>

\* TodoListWidget.dropEvent, the drag came from this list
DropSameList(from_index, to_index) ==
    /\ Idle /\ CanPush
    /\ InRange(rows[_current_list_widget], from_index)
    /\ 0 <= to_index /\ to_index <= Len(rows[_current_list_widget])
    /\ IF from_index # to_index
       THEN /\ SetApp(push(App, ReorderItemCommand(_current_list_widget, from_index, to_index)))
            /\ Note("push")
            /\ UNCHANGED <<focus, others, file, app_data>>
       ELSE UNCHANGED vars

FindSource_last_row(w, dest_lw, text) ==
    LET hits == { k \in 1..Len(w.tabs) :
                    /\ w.tabs[k].widget # dest_lw
                    /\ \E j \in 1..Len(w.rows[w.tabs[k].widget]) :
                          w.rows[w.tabs[k].widget][j] = text }
    IN  IF hits = {} THEN [found |-> FALSE]
        ELSE LET k == CHOOSE k \in hits : \A h \in hits : k <= h
                 s == w.rows[w.tabs[k].widget]
                 j == CHOOSE j \in 1..Len(s) : s[j] = text /\ \A h \in (j + 1)..Len(s) : s[h] # text
             IN  [found |-> TRUE, src_lw |-> w.tabs[k].widget, src_item_index |-> j - 1]

\* the first list other than dest_lw, in tab order, with a row of this text
FindSource(w, dest_lw, text) ==
    LET hits == { k \in 1..Len(w.tabs) :
                    /\ w.tabs[k].widget # dest_lw
                    /\ \E j \in 1..Len(w.rows[w.tabs[k].widget]) :
                          w.rows[w.tabs[k].widget][j] = text }
    IN  IF hits = {} THEN [found |-> FALSE]
        ELSE LET k == CHOOSE k \in hits : \A h \in hits : k <= h
                 s == w.rows[w.tabs[k].widget]
                 j == CHOOSE j \in 1..Len(s) : s[j] = text /\ \A h \in 1..(j - 1) : s[h] # text
             IN  [found |-> TRUE, src_lw |-> w.tabs[k].widget, src_item_index |-> j - 1]

_on_cross_drop_received_append(dest_lw, to_index, text) ==
    LET src == FindSource(Window(App), dest_lw, text)
    IN  IF ~src.found
           THEN /\ rows' = [rows EXCEPT ![dest_lw] = append_item(rows[dest_lw], text)]
                /\ NoteOther
                /\ UNCHANGED <<tabs, currentIndex, focus, stack, index, shadow, file, app_data>>
           ELSE /\ CanPush
                /\ Len(rows[dest_lw]) < MaxItems
                /\ SetApp(push(App, MoveItemBetweenListsCommand(
                                      indexOf(Window(App), src.src_lw), src.src_item_index,
                                      indexOf(Window(App), dest_lw), to_index, text)))
                /\ Note("push")
                /\ UNCHANGED <<focus, others, file, app_data>>

\* MainWindow._on_cross_drop_received
_on_cross_drop_received(dest_lw, to_index, text) ==
    LET src == FindSource(Window(App), dest_lw, text)
    IN  IF ~src.found
           THEN /\ rows' = [rows EXCEPT ![dest_lw] = insert_item(rows[dest_lw], to_index, text)]
                /\ NoteOther
                /\ UNCHANGED <<tabs, currentIndex, focus, stack, index, shadow, file, app_data>>
           ELSE /\ CanPush
                /\ Len(rows[dest_lw]) < MaxItems
                /\ SetApp(push(App, MoveItemBetweenListsCommand(
                                      indexOf(Window(App), src.src_lw), src.src_item_index,
                                      indexOf(Window(App), dest_lw), to_index, text)))
                /\ Note("push")
                /\ UNCHANGED <<focus, others, file, app_data>>

\* TodoListWidget.dropEvent, the drag came from row i of another list of this window
CrossDrop(s, i, to_index) ==
    /\ Idle
    /\ s # _current_list_widget
    /\ indexOf(Window(App), s) >= 0
    /\ InRange(rows[s], i)
    /\ 0 <= to_index /\ to_index <= Len(rows[_current_list_widget])
    /\ _on_cross_drop_received(_current_list_widget, to_index, rows[s][i + 1])

\* TodoListWidget.dropEvent, the payload came from another process
ForeignDrop(text, to_index) ==
    /\ Idle
    /\ 0 <= to_index /\ to_index <= Len(rows[_current_list_widget])
    /\ _on_cross_drop_received(_current_list_widget, to_index, text)

_on_item_dropped_on_tab_any_source(tab_index, source_id, from_index, text) ==
    LET from_list_index == indexOf(Window(App), source_id)
    IN  /\ SetApp(push(App, MoveItemBetweenListsCommand(
                              from_list_index, from_index, tab_index, 0, text)))
        /\ Note("push")
        /\ UNCHANGED <<focus, others, file, app_data>>

\* MainWindow._on_item_dropped_on_tab; source_id 0 is the id of no list of this window
_on_item_dropped_on_tab(tab_index, source_id, from_index, text) ==
    LET from_list_index == indexOf(Window(App), source_id)
    IN  IF from_list_index < 0 \/ from_list_index = tab_index
        THEN UNCHANGED vars
        ELSE /\ SetApp(push(App, MoveItemBetweenListsCommand(
                                   from_list_index, from_index, tab_index, 0, text)))
             /\ Note("push")
             /\ UNCHANGED <<focus, others, file, app_data>>

\* HotTabBar.dropEvent on tab tab_index, the drag came from row i of the current list
TabDrop(i, tab_index) ==
    /\ Idle /\ CanPush
    /\ InRange(rows[_current_list_widget], i)
    /\ InRange(tabs, tab_index)
    /\ Len(rows[_list_widget_at(Window(App), tab_index)]) < MaxItems
    /\ _on_item_dropped_on_tab(tab_index, _current_list_widget, i,
                               rows[_current_list_widget][i + 1])

\* HotTabBar.dropEvent on tab tab_index, the payload came from another process
ForeignTabDrop(text, tab_index) ==
    /\ Idle /\ CanPush
    /\ InRange(tabs, tab_index)
    /\ Len(rows[_list_widget_at(Window(App), tab_index)]) < MaxItems
    /\ _on_item_dropped_on_tab(tab_index, 0, 0, text)

\* toolbar: MainWindow._on_new_item, the new row's editor gets focus
NewItem ==
    /\ Idle /\ CanPush
    /\ Len(rows[_current_list_widget]) < MaxItems
    /\ SetApp(push(App, AddItemCommand(_current_list_widget, EMPTY)))
    /\ focus' = [lw |-> _current_list_widget,
                 row |-> Len(rows'[_current_list_widget]) - 1,
                 original |-> rows'[_current_list_widget][Len(rows'[_current_list_widget])]]
    /\ Note("push")
    /\ UNCHANGED <<others, file, app_data>>

\* toolbar: MainWindow._on_delete_item, i is the list's currentRow()
DeleteItem(i) ==
    /\ Idle /\ CanPush
    /\ i = -1 \/ InRange(rows[_current_list_widget], i)
    /\ IF i < 0
       THEN UNCHANGED vars
       ELSE /\ SetApp(push(App, DeleteItemCommand(_current_list_widget, i,
                                                  rows[_current_list_widget][i + 1])))
            /\ Note("push")
            /\ UNCHANGED <<focus, others, file, app_data>>

-----------------------------------------------------------------------------
(* Gestures on the tabs *)

\* HotTabBar hot zone double click -> MainWindow._on_tab_promoted
TabPromote(i) ==
    /\ Idle /\ CanPush
    /\ InRange(tabs, i)
    /\ IF i = 0
       THEN UNCHANGED vars
       ELSE /\ SetApp(push(App, MoveListToFrontCommand(i)))
            /\ Note("push")
            /\ UNCHANGED <<focus, others, file, app_data>>

\* _on_tab_rename_requested._commit with the editor holding typed
_commit(a, i, old_name, typed) ==
    LET new_name == strip(typed)
    IN  IF new_name # EMPTY /\ new_name # old_name
        THEN push(a, RenameTabCommand(i, old_name, new_name))
        ELSE a

\* the rename editor loses focus: editingFinished runs _commit
RenameFocusLost(i, typed) ==
    /\ Idle /\ CanPush
    /\ InRange(tabs, i)
    /\ SetApp(_commit(App, i, tabs[i + 1].label, typed))
    /\ IF index' # index THEN Note("push") ELSE Quiet
    /\ UNCHANGED <<others, file, app_data>>
    /\ UNCHANGED focus

\* Return in the rename editor: returnPressed and editingFinished both run _commit
RenameReturn(i, typed) ==
    /\ Idle /\ pushed + 1 < MaxCmds
    /\ InRange(tabs, i)
    /\ LET old_name == tabs[i + 1].label
       IN  SetApp(_commit(_commit(App, i, old_name, typed), i, old_name, typed))
    /\ IF index' # index THEN Note("push") ELSE Quiet
    /\ UNCHANGED <<focus, others, file, app_data>>

NewList_in_front(typed) ==
    /\ Idle
    /\ Len(tabs) < MaxLists
    /\ strip(typed) # EMPTY
    /\ tabs' = <<[widget |-> Len(tabs) + 1, label |-> strip(typed)]>> \o tabs
    /\ currentIndex' = 0
    /\ app_data' = add_list(app_data, strip(typed))
    /\ NoteOther
    /\ UNCHANGED <<rows, focus, stack, index, shadow, file>>

\* toolbar: MainWindow._on_new_list with the dialog accepted
NewList(typed) ==
    /\ Idle
    /\ Len(tabs) < MaxLists
    /\ strip(typed) # EMPTY
    /\ tabs' = Append(tabs, [widget |-> Len(tabs) + 1, label |-> strip(typed)])
    /\ currentIndex' = Len(tabs)
    /\ app_data' = add_list(app_data, strip(typed))
    /\ NoteOther
    /\ UNCHANGED <<rows, focus, stack, index, shadow, file>>

\* the user clicks another tab
SelectTab(k) ==
    /\ Idle
    /\ InRange(tabs, k)
    /\ k # currentIndex
    /\ currentIndex' = k
    /\ UNCHANGED <<tabs, rows, focus, stack, index, shadow, phase, pushed, others,
                 file, app_data>>

-----------------------------------------------------------------------------
(* Undo and redo shortcuts *)

Undo ==
    /\ Idle
    /\ SetApp(stack_undo(App))
    /\ IF index' # index THEN Note("undo") ELSE Quiet
    /\ UNCHANGED <<others, file, app_data>>
    /\ UNCHANGED focus

Redo ==
    /\ Idle
    /\ SetApp(stack_redo(App))
    /\ IF index' # index THEN Note("redo") ELSE Quiet
    /\ UNCHANGED <<others, file, app_data>>
    /\ UNCHANGED focus

-----------------------------------------------------------------------------
Positions == 0..(MaxItems + MaxOther)

Next ==
    \/ \E i \in Positions : FocusIn(i)
    \/ \E t \in TypedTexts : Type(t)
    \/ FocusOut
    \/ EscapePressed
    \/ \E i \in Positions : Promote(i)
    \/ \E i, j \in Positions : DropSameList(i, j)
    \/ \E s \in LwIds, i, j \in Positions : CrossDrop(s, i, j)
    \/ \E t \in ForeignTexts, j \in Positions : ForeignDrop(t, j)
    \/ \E i \in Positions, k \in 0..(MaxLists - 1) : TabDrop(i, k)
    \/ \E t \in ForeignTexts, k \in 0..(MaxLists - 1) : ForeignTabDrop(t, k)
    \/ NewItem
    \/ \E i \in {-1} \cup Positions : DeleteItem(i)
    \/ \E k \in 0..(MaxLists - 1) : TabPromote(k)
    \/ \E k \in 0..(MaxLists - 1), n \in TypedNames : RenameFocusLost(k, n)
    \/ \E k \in 0..(MaxLists - 1), n \in TypedNames : RenameReturn(k, n)
    \/ \E n \in TypedNames : NewList(n)
    \/ \E k \in 0..(MaxLists - 1) : SelectTab(k)
    \/ Undo
    \/ Redo

Spec == Init /\ [][Next]_vars

-----------------------------------------------------------------------------
(* Saving: the Save shortcut and closeEvent both run _save *)

_save ==
    /\ app_data' = _sync_data_model(app_data, Window(App))
    /\ file' = save(app_data')
    /\ UNCHANGED <<tabs, rows, currentIndex, focus, stack, index, shadow, phase, pushed,
                   others>>

\* a first run: there is no file yet
InitSave == Init /\ file = NoFile

NextSave == Next \/ _save

SpecSave == InitSave /\ [][NextSave]_vars

-----------------------------------------------------------------------------
(* storage.py alone: a document is saved and the file is loaded.  The documents
   have up to MaxStored lists of up to MaxStored items; the file is first
   missing, unreadable, not TOML, or TOML without the keys that load reads.  *)

StoredTexts == {EMPTY, <<BSL, "n">>, <<QUOTE, NL>>}
StoredNames == {EMPTY, L1}

SeqsUpTo(S, n) == UNION {[1..k -> S] : k \in 0..n}

StorageDocs ==
    SeqsUpTo([name : StoredNames, items : SeqsUpTo(StoredTexts, MaxStored)], MaxStored)

Unreadable == [exists |-> TRUE, readable |-> FALSE, lines |-> dump(<<>>)]
NotToml == [exists |-> TRUE, readable |-> TRUE, lines |-> <<JunkLine>>]
Unterminated ==
    [exists |-> TRUE, readable |-> TRUE,
     lines |-> <<TableLine, KeyLine("name", <<QUOTE, "L">>)>>]
NoKeys ==
    [exists |-> TRUE, readable |-> TRUE,
     lines |-> <<TableLine, TableLine, KeyLine("items", <<basic_string(A)>>)>>]
NoLists == [exists |-> TRUE, readable |-> TRUE, lines |-> <<>>]

StorageFiles == {NoFile, Unreadable, NotToml, Unterminated, NoKeys, NoLists}

InitStorage ==
    /\ \/ app_data \in StorageDocs /\ file = NoFile
       \/ app_data = <<>> /\ file \in StorageFiles
    /\ tabs = <<>>
    /\ rows = [lw \in LwIds |-> <<>>]
    /\ currentIndex = -1
    /\ focus = NoFocus
    /\ stack = <<>>
    /\ index = 0
    /\ shadow = <<>>
    /\ phase = "idle"
    /\ pushed = 0
    /\ others = 0

StorageSave ==
    /\ file' = save(app_data)
    /\ UNCHANGED <<tabs, rows, currentIndex, focus, stack, index, shadow, phase, pushed,
                   others, app_data>>

StorageLoad ==
    /\ load(file).ok
    /\ app_data' = load(file).lists
    /\ UNCHANGED <<tabs, rows, currentIndex, focus, stack, index, shadow, phase, pushed,
                   others, file>>

NextStorage == StorageSave \/ StorageLoad

SpecStorage == InitStorage /\ [][NextStorage]_vars

-----------------------------------------------------------------------------
(* The helpers that the commands call, called with any list and item index.
   shadow holds the one call made last, phase whether it raised or returned;
   each call is a change without a command.                                  *)

\* item(from_index) is None out of range, and None has no data()
_move_row_raises(s, from_index) == ~InRange(s, from_index)

\* widget(i) is None out of range, and None has neither remove_item nor insert_item
transfer_item_raises(w, from_list, to_list) ==
    _list_widget_at(w, from_list) = 0 \/ _list_widget_at(w, to_list) = 0

OpIndexes == (-1)..(MaxItems + 1)
TabIndexes == (-1)..MaxLists

Called(op, args, in_range, raised, w) ==
    /\ others < MaxOther
    /\ others' = others + 1
    /\ tabs' = w.tabs
    /\ rows' = w.rows
    /\ currentIndex' = w.currentIndex
    /\ shadow' = <<[pre |-> Doc(App), post |-> [tabs |-> w.tabs, rows |-> w.rows],
                    op |-> op, args |-> args, in_range |-> in_range]>>
    /\ phase' = IF raised THEN "raised" ELSE "returned"
    /\ UNCHANGED <<focus, stack, index, pushed, file, app_data>>

Shown_lw(lw) == indexOf(Window(App), lw) >= 0

Call_set_item_text(lw, i, text) ==
    /\ Shown_lw(lw)
    /\ Called("set_item_text", <<lw, i>>, InRange(rows[lw], i), FALSE,
              OnList(Window(App), lw, set_item_text(rows[lw], i, text)))

Call_remove_item(lw, i) ==
    /\ Shown_lw(lw)
    /\ Called("remove_item", <<lw, i>>, InRange(rows[lw], i), FALSE,
              OnList(Window(App), lw, remove_item(rows[lw], i)))

Call_insert_item(lw, i, text) ==
    /\ Shown_lw(lw)
    /\ Len(rows[lw]) <= MaxItems
    /\ Called("insert_item", <<lw, i>>, 0 <= i /\ i <= Len(rows[lw]), FALSE,
              OnList(Window(App), lw, insert_item(rows[lw], i, text)))

Call_reorder_item(lw, from_index, to_index) ==
    /\ Shown_lw(lw)
    /\ Called("reorder_item", <<lw, from_index, to_index>>,
              InRange(rows[lw], from_index) /\ 0 <= to_index /\ to_index <= Len(rows[lw]),
              _move_row_raises(rows[lw], from_index),
              OnList(Window(App), lw, reorder_item(rows[lw], from_index, to_index)))

Call_transfer_item(from_list, from_item, to_list, to_item, text) ==
    /\ \A lw \in LwIds : Len(rows[lw]) <= MaxItems
    /\ Called("transfer_item", <<from_list, from_item, to_list, to_item>>,
              /\ InRange(tabs, from_list)
              /\ InRange(tabs, to_list)
              /\ InRange(rows[_list_widget_at(Window(App), from_list)], from_item)
              /\ 0 <= to_item
              /\ to_item <= Len(rows[_list_widget_at(Window(App), to_list)]),
              transfer_item_raises(Window(App), from_list, to_list),
              transfer_item(Window(App), from_list, from_item, to_list, to_item, text))

Call_move_tab_to_front(from_index, to_index) ==
    /\ Len(tabs) > 0
    /\ Called("move_tab_to_front", <<from_index, to_index>>,
              InRange(tabs, from_index) /\ InRange(tabs, to_index), FALSE,
              move_tab_to_front(Window(App), from_index, to_index))

NextOps ==
    \/ \E lw \in LwIds, i \in OpIndexes, t \in TypedTexts : Call_set_item_text(lw, i, t)
    \/ \E lw \in LwIds, i \in OpIndexes : Call_remove_item(lw, i)
    \/ \E lw \in LwIds, i \in OpIndexes, t \in ForeignTexts : Call_insert_item(lw, i, t)
    \/ \E lw \in LwIds, i, j \in OpIndexes : Call_reorder_item(lw, i, j)
    \/ \E k, l \in TabIndexes, i \in OpIndexes, j \in {0}, t \in ForeignTexts :
          Call_transfer_item(k, i, l, j, t)
    \/ \E k \in TabIndexes : Call_move_tab_to_front(k, 0)

SpecOps == Init /\ [][NextOps]_vars

-----------------------------------------------------------------------------
(* Moving rows within one list: the window opens on one stored list of up to
   MoveLen rows and rows are dragged and dropped within it *)

Letters == <<A, B, C, D, X, EMPTY>>

MoveFiles ==
    { <<[name |-> L1, items |-> SubSeq(Letters, 1, n)]>> : n \in 0..MoveLen }

InitMove ==
    \E lists \in MoveFiles :
       /\ file = save(lists)
       /\ app_data = lists
       /\ tabs = <<[widget |-> 1, label |-> lists[1].name]>>
       /\ rows = [lw \in LwIds |-> IF lw = 1 THEN lists[1].items ELSE <<>>]
       /\ currentIndex = 0
       /\ focus = NoFocus
       /\ stack = <<>>
       /\ index = 0
       /\ shadow = <<>>
       /\ phase = "idle"
       /\ pushed = 0
       /\ others = 0

NextMove == \E i, j \in 0..MoveLen : DropSameList(i, j)

SpecMove == InitMove /\ [][NextMove]_vars

-----------------------------------------------------------------------------
(* Properties *)

Document == Doc(App)

\* the command the phase is about, and the documents around its first redo()
Applied == stack[index]
AppliedShadow == shadow[index]
Undone == stack[index + 1]
UndoneShadow == shadow[index + 1]

\* s without its element at 0-based i; s with x put at 0-based i
Without(s, i) == [k \in 1..(Len(s) - 1) |-> IF k <= i THEN s[k] ELSE s[k + 1]]
With(s, i, x) ==
    [k \in 1..(Len(s) + 1) |-> IF k <= i THEN s[k] ELSE IF k = i + 1 THEN x ELSE s[k - 1]]

Count(s, x) == Cardinality({k \in 1..Len(s) : s[k] = x})

JustUndone(kind) == phase = "undone" /\ Undone.kind = kind
JustDone(kind) == phase = "done" /\ Applied.kind = kind
JustRedone(kind) == phase = "redone" /\ Applied.kind = kind

\* C1: a ReorderItem command that is undone right after it was executed leaves
\* the document exactly as it was before the command.
C1_ReorderInverse ==
    JustUndone("ReorderItem") => Document = UndoneShadow.pre

\* C2: a MoveItemToTop command that is undone right after it was executed puts
\* the item back at its original index and leaves every other item where it was.
C2_MoveToTopInverse ==
    JustUndone("MoveItemToTop") => Document = UndoneShadow.pre

\* C3: a MoveItemBetweenLists command between two distinct lists removes the item
\* at (from_list, from_item) and inserts its text at (to_list, to_item), leaving
\* the tabs and every other list alone; undone right afterwards, the document is
\* exactly what it was before the command.
C3_Moved(c, pre, doc) ==
    LET src == pre.tabs[c.from_list + 1].widget
        dst == pre.tabs[c.to_list + 1].widget
    IN  /\ c.from_list # c.to_list
        /\ InRange(pre.rows[src], c.from_item)
        /\ pre.rows[src][c.from_item + 1] = c.text
        /\ 0 <= c.to_item /\ c.to_item <= Len(pre.rows[dst])
        /\ doc.tabs = pre.tabs
        /\ doc.rows[src] = Without(pre.rows[src], c.from_item)
        /\ doc.rows[dst] = With(pre.rows[dst], c.to_item, c.text)
        /\ \A lw \in LwIds \ {src, dst} : doc.rows[lw] = pre.rows[lw]

C3_TransferInverse ==
    /\ JustDone("MoveItemBetweenLists") => C3_Moved(Applied, AppliedShadow.pre, Document)
    /\ JustUndone("MoveItemBetweenLists") => Document = UndoneShadow.pre

C3_Witness ==
    /\ JustUndone("MoveItemBetweenLists")
    /\ Undone.to_item > 0
    /\ Document # UndoneShadow.post

\* C4: when a transfer is undone after changes that recorded no command and left
\* the transferred item in the destination list, the text is back at
\* (from_list, from_item) and the destination list loses that item and no other.
C4_UndoAfterInterimChange ==
    [][ ( /\ phase = "touched"
          /\ phase' = "touchedUndone"
          /\ Applied.kind = "MoveItemBetweenLists"
          /\ Count(rows[tabs[Applied.to_list + 1].widget], Applied.text)
               >= Count(AppliedShadow.post.rows[tabs[Applied.to_list + 1].widget], Applied.text) )
        => LET c == Applied
               src == tabs[c.from_list + 1].widget
               dst == tabs[c.to_list + 1].widget
           IN  /\ InRange(rows'[src], c.from_item)
               /\ rows'[src][c.from_item + 1] = c.text
               /\ Len(rows'[dst]) = Len(rows[dst]) - 1
               /\ \A t \in {rows[dst][k] : k \in 1..Len(rows[dst])} :
                     Count(rows'[dst], t) = Count(rows[dst], t) - (IF t = c.text THEN 1 ELSE 0)
      ]_vars

\* C5: a MoveListToFront command of list i > 0 puts that list first and keeps the
\* order of the others, every list keeping its name and items; undone right
\* afterwards, the tab order is exactly what it was.
C5_MoveListToFrontInverse ==
    /\ JustDone("MoveListToFront") =>
          LET pre == AppliedShadow.pre
              i == Applied.list_index
          IN  /\ 0 < i /\ i < Len(pre.tabs)
              /\ tabs = <<pre.tabs[i + 1]>> \o Without(pre.tabs, i)
              /\ rows = pre.rows
    /\ JustUndone("MoveListToFront") => Document = UndoneShadow.pre

C5_Witness ==
    /\ JustUndone("MoveListToFront")
    /\ Document # UndoneShadow.post
    /\ \E k \in 1..Len(tabs) : rows[tabs[k].widget] # <<>>

\* C6: a DeleteItem command removes exactly the selected item, whose text it
\* holds; undone right afterwards, the document is exactly what it was.
C6_DeleteInverse ==
    /\ JustDone("DeleteItem") =>
          LET pre == AppliedShadow.pre
              c == Applied
          IN  /\ InRange(pre.rows[c.list_widget], c.item_index)
              /\ pre.rows[c.list_widget][c.item_index + 1] = c.text
              /\ rows = [pre.rows EXCEPT ![c.list_widget] =
                            Without(pre.rows[c.list_widget], c.item_index)]
              /\ tabs = pre.tabs
    /\ JustUndone("DeleteItem") => Document = UndoneShadow.pre

C6_Witness ==
    /\ JustUndone("DeleteItem")
    /\ Undone.item_index + 1 < Len(rows[Undone.list_widget])

\* C7: whenever an AddItem command is undone, its list is again the sequence it
\* was before the command appended the item.
C7_AddInverse ==
    [][ (index' = index - 1 /\ stack[index].kind = "AddItem")
        => rows'[stack[index].list_widget] = shadow[index].pre.rows[stack[index].list_widget]
      ]_vars

\* C8: a committed edit leaves the new text n # o at index i; undone right
\* afterwards the item holds o again, redone it holds n again, and nothing else
\* of the document differs.
C8_EditInverse ==
    /\ JustDone("EditItem") =>
          LET c == Applied
          IN  /\ c.new_text # c.old_text
              /\ InRange(rows[c.list_widget], c.item_index)
              /\ rows[c.list_widget][c.item_index + 1] = c.new_text
              /\ Document = AppliedShadow.pre
    /\ JustUndone("EditItem") =>
          LET c == Undone
              pre == UndoneShadow.pre
          IN  /\ tabs = pre.tabs
              /\ rows = [pre.rows EXCEPT ![c.list_widget][c.item_index + 1] = c.old_text]
    /\ JustRedone("EditItem") => Document = AppliedShadow.post

C8_Witness ==
    /\ JustRedone("EditItem")
    /\ Applied.item_index > 0
    /\ Applied.old_text # EMPTY

\* C9: a command that is executed, undone and redone leaves the document exactly
\* as it was right after it was executed.
C9_RedoLaw ==
    phase = "redone" => Document = AppliedShadow.post

\* C10: a push below the end of the stack drops the commands above the index and
\* leaves the pushed command last with the index at the end; a redo right after a
\* push changes neither the document nor the stack.
C10_BranchTruncation ==
    [][ /\ (stack' # stack /\ index < Len(stack)) =>
             /\ Len(stack') > index
             /\ SubSeq(stack', 1, index) = SubSeq(stack, 1, index)
             /\ \A k \in (index + 1)..Len(stack') : stack'[k] = stack'[Len(stack')]
             /\ index' = Len(stack')
        /\ (phase = "done" /\ Redo) => UNCHANGED <<tabs, rows, stack, index>>
      ]_vars

C10_Witness ==
    /\ phase = "done"
    /\ pushed > Len(stack)
    /\ index = Len(stack)

\* the list widgets whose rows a command addresses, and whether it addresses the tabs
Addressed(c, w) ==
    CASE c.kind \in {"EditItem", "MoveItemToTop", "ReorderItem", "AddItem", "DeleteItem"} ->
           {c.list_widget}
      [] c.kind = "MoveItemBetweenLists" ->
           {_list_widget_at(w, c.from_list), _list_widget_at(w, c.to_list)}
      [] OTHER -> {}

OnTabs(c) == c.kind \in {"MoveListToFront", "RenameTab"}

WindowNext == [tabs |-> tabs', rows |-> rows', currentIndex |-> currentIndex']

\* C11: undo with the index at 0 and redo with the index at the end change neither
\* the document nor the stack nor the index; otherwise undo moves the index down by
\* one and runs the undo() of the command that was applied last, redo moves it up by
\* one and runs the redo() of the command that was undone last, and nothing that
\* this command does not address changes, whichever tab is shown.
C11_UndoRedoAtEnds ==
    [][ /\ (Undo /\ index = 0) => UNCHANGED <<tabs, rows, stack, index>>
        /\ (Redo /\ index = Len(stack)) => UNCHANGED <<tabs, rows, stack, index>>
        /\ (Undo /\ index > 0) =>
              /\ index' = index - 1
              /\ stack' = stack
              /\ WindowNext = undo(stack[index], Window(App))
              /\ \A lw \in LwIds \ Addressed(stack[index], Window(App)) : rows'[lw] = rows[lw]
              /\ OnTabs(stack[index]) \/ tabs' = tabs
        /\ (Redo /\ index < Len(stack)) =>
              /\ index' = index + 1
              /\ stack' = stack
              /\ WindowNext = redo(stack[index + 1], Window(App))
              /\ \A lw \in LwIds \ Addressed(stack[index + 1], Window(App)) : rows'[lw] = rows[lw]
              /\ OnTabs(stack[index + 1]) \/ tabs' = tabs
      ]_vars

C11_Witness ==
    /\ phase = "undone"
    /\ Len(stack) = 2
    /\ index = 1
    /\ stack[1] # stack[2]
    /\ Addressed(Undone, Window(App)) # {}
    /\ _current_list_widget \notin Addressed(Undone, Window(App))
    /\ Document # UndoneShadow.post

\* C12: a gesture that records a command appends exactly one command to the
\* stack: the index grows by one and the pushed command is the last one; a
\* committed rename of a list (new name non-empty and different from the old
\* one) leaves exactly one more command, a RenameTab, on the stack.
C12_OneGestureOneCommand ==
    [][ /\ index' > index => index' = index + 1
        /\ stack' # stack => Len(stack') = index + 1
        /\ (\E k \in 0..(MaxLists - 1) :
               /\ InRange(tabs, k)
               /\ InRange(tabs', k)
               /\ tabs'[k + 1].widget = tabs[k + 1].widget
               /\ tabs'[k + 1].label # tabs[k + 1].label
               /\ index' > index)
           => /\ Len(stack') = index + 1
              /\ stack'[index + 1].kind = "RenameTab"
      ]_vars

\* C13: moving the item at index from to index to within a list leaves the list
\* with that item taken out and put back at index to of what remained, the other
\* items in their order: move(2, 0) on [A,B,C,D] gives [C,A,B,D] and move(0, 2)
\* on [A,B,C,D] gives [B,C,A,D].
C13_MoveSemantics ==
    JustDone("ReorderItem") =>
       LET c == Applied
           pre == AppliedShadow.pre.rows[c.list_widget]
       IN  c.to_index < Len(pre) =>
              rows[c.list_widget] =
                 With(Without(pre, c.from_index), c.to_index, pre[c.from_index + 1])

\* C14: when Escape is pressed in an item's editor after typing, the document is
\* what it was when the edit began (the item holds its original text again) and
\* the stack and its index are unchanged.
C14_EditCancellation ==
    [][ EscapePressed =>
          /\ tabs' = tabs
          /\ rows' = [rows EXCEPT ![focus.lw][focus.row + 1] = focus.original]
          /\ stack' = stack
          /\ index' = index
      ]_vars

\* the characters of a text
Chars(t) == {t[k] : k \in 1..Len(t)}

\* the texts of the rows of list widget lw
Texts(lw) == {rows[lw][k] : k \in 1..Len(rows[lw])}

\* an item with text t is dropped on row j of the current list from outside it
DroppedOnRow(t, j) ==
    \/ ForeignDrop(t, j)
    \/ \E s \in LwIds, i \in Positions :
          InRange(rows[s], i) /\ rows[s][i + 1] = t /\ CrossDrop(s, i, j)

\* C15: when an item with text t is dropped on a row of list L and another list
\* holds an item with text t, one MoveItemBetweenLists command is recorded; it
\* moves to (L, drop index) from the first list in tab order, other than L, that
\* holds t, and from the lowest index of t in that list.
C15_SourceResolution ==
    [][ ( /\ focus = NoFocus
          /\ Len(rows'[_current_list_widget]) = Len(rows[_current_list_widget]) + 1 )
        => \A j \in 0..Len(rows[_current_list_widget]) :
              \A t \in ForeignTexts \cup UNION {Texts(lw) : lw \in LwIds} :
                 ( /\ \E k \in 0..(Len(tabs) - 1) :
                        k # currentIndex /\ t \in Texts(tabs[k + 1].widget)
                   /\ DroppedOnRow(t, j) )
                 => /\ index' = index + 1
                    /\ Len(stack') = index'
                    /\ LET c == stack'[index']
                       IN  /\ c.kind = "MoveItemBetweenLists"
                           /\ c.to_list = currentIndex
                           /\ c.to_item = j
                           /\ c.text = t
                           /\ InRange(tabs, c.from_list)
                           /\ c.from_list # c.to_list
                           /\ InRange(rows[tabs[c.from_list + 1].widget], c.from_item)
                           /\ rows[tabs[c.from_list + 1].widget][c.from_item + 1] = t
                           /\ \A k \in 0..(c.from_list - 1) :
                                 k = c.to_list \/ t \notin Texts(tabs[k + 1].widget)
                           /\ \A h \in 0..(c.from_item - 1) :
                                 rows[tabs[c.from_list + 1].widget][h + 1] # t
      ]_vars

C15_Witness ==
    /\ JustDone("MoveItemBetweenLists")
    /\ Applied.to_list = currentIndex
    /\ \E k \in (Applied.from_list + 1)..(Len(tabs) - 1) :
          /\ k # Applied.to_list
          /\ Applied.text \in
                {AppliedShadow.pre.rows[tabs[k + 1].widget][h] :
                   h \in 1..Len(AppliedShadow.pre.rows[tabs[k + 1].widget])}

\* C16: when an item with text t is dropped on a row of list L and no other list
\* holds an item with text t, t is inserted into L at the drop index, no other
\* list and no tab changes, and the stack and its index are unchanged.
C16_FallbackInsert ==
    [][ ( /\ focus = NoFocus
          /\ Len(rows'[_current_list_widget]) = Len(rows[_current_list_widget]) + 1 )
        => \A j \in 0..Len(rows[_current_list_widget]) :
              \A t \in ForeignTexts \cup UNION {Texts(lw) : lw \in LwIds} :
                 ( /\ \A k \in 0..(Len(tabs) - 1) :
                        k = currentIndex \/ t \notin Texts(tabs[k + 1].widget)
                   /\ DroppedOnRow(t, j) )
                 => /\ rows' = [rows EXCEPT ![_current_list_widget] =
                                   With(rows[_current_list_widget], j, t)]
                    /\ tabs' = tabs
                    /\ stack' = stack
                    /\ index' = index
      ]_vars

\* a foreign text stands above other rows and a command can be redone
C16_Witness ==
    /\ index < Len(stack)
    /\ \E lw \in LwIds :
          /\ Len(rows[lw]) > 1
          /\ \E k \in 1..(Len(rows[lw]) - 1) : rows[lw][k] \in ForeignTexts
    /\ \A k \in 1..Len(stack) : stack[k].kind # "MoveItemBetweenLists"

\* C17: for every document, saving it and loading the file returns the same
\* lists in the same order with the same names and the same items, also for a
\* document without lists and for lists without items.
C17_RoundTrip ==
    load(save(app_data)) = Returned(app_data)

C17_Witness ==
    /\ file = save(app_data)
    /\ load(file) = Returned(app_data)
    /\ Len(app_data) = 2
    /\ app_data[1].items = <<>>
    /\ \E k \in 1..Len(app_data[2].items) : BSL \in Chars(app_data[2].items[k])

\* the lists that the window shows, in tab order
Shown ==
    [k \in 1..Len(tabs) |-> [name |-> tabs[k].label, items |-> rows[tabs[k].widget]]]

\* C18: whatever gestures, undos and redos came before, a save leaves a file that
\* holds exactly the lists shown, in tab order, with their names and items, and
\* nothing else.
C18_SaveReflectsCurrent ==
    [][ _save => load(file') = Returned(Shown) ]_vars

C18_Witness ==
    /\ file.exists
    /\ load(file) = Returned(Shown)
    /\ index < Len(stack)
    /\ Len(tabs) > 1
    /\ \E lw \in LwIds : Len(rows[lw]) > 0

\* C19: load returns the empty document, without raising, when the file does not
\* exist and when it exists but cannot be read or is not TOML.
C19_LoadNeverFails ==
    (~file.exists \/ ~file.readable \/ ~well_formed(file.lines))
       => load(file) = Returned(<<>>)

\* C20: a helper called with a list index or an item index outside the range of
\* what exists raises an error and leaves the document as it was; it neither
\* returns silently, nor clamps the index, nor touches another element.
C20_OutOfRange ==
    (shadow # <<>> /\ ~shadow[1].in_range) =>
       /\ phase = "raised"
       /\ Document = shadow[1].pre

\* C21: when a helper fails on an index out of range, the document is exactly
\* what it was before the call; a transfer from a row that exists to a list that
\* does not exist leaves the row in its list.
C21_UnchangedOnError ==
    (shadow # <<>> /\ phase = "raised") => Document = shadow[1].pre

\* C22: promoting the list at tab 0, promoting the row at index 0 and pressing
\* delete while the current list has no selected row each leave the document
\* exactly as it was.
C22_NothingToDo ==
    [][(Idle /\ (TabPromote(0) \/ Promote(0) \/ DeleteItem(-1))) => Document' = Document]_vars

\* a MoveItemToTop command for row 0 of a list with two rows was just executed
C22_Witness ==
    /\ JustDone("MoveItemToTop")
    /\ Applied.item_index = 0
    /\ Len(rows[Applied.list_widget]) = 2

\* the indices that redo() and undo() of command c hand to the helpers exist in
\* window w: a source row or tab is in [0, count), a target position in [0, count]
InsertPos(s, i) == 0 <= i /\ i <= Len(s)

TransferInRange(w, from_list, from_item, to_list, to_item) ==
    /\ InRange(w.tabs, from_list)
    /\ InRange(w.tabs, to_list)
    /\ InRange(w.rows[_list_widget_at(w, from_list)], from_item)
    /\ InsertPos(w.rows[_list_widget_at(w, to_list)], to_item)

RedoInRange(c, w) ==
    CASE c.kind \in {"EditItem", "MoveItemToTop", "DeleteItem"} ->
           InRange(w.rows[c.list_widget], c.item_index)
      [] c.kind = "ReorderItem" ->
           /\ InRange(w.rows[c.list_widget], c.from_index)
           /\ InsertPos(w.rows[c.list_widget], c.to_index)
      [] c.kind = "MoveItemBetweenLists" ->
           TransferInRange(w, c.from_list, c.from_item, c.to_list, c.to_item)
      [] c.kind = "MoveListToFront" -> InRange(w.tabs, c.list_index)
      [] c.kind = "AddItem" -> TRUE
      [] c.kind = "RenameTab" -> InRange(w.tabs, c.index)

UndoInRange(c, w) ==
    CASE c.kind = "EditItem" -> InRange(w.rows[c.list_widget], c.item_index)
      [] c.kind = "MoveItemToTop" ->
           /\ InRange(w.rows[c.list_widget], 0)
           /\ InsertPos(w.rows[c.list_widget], c.item_index)
      [] c.kind = "ReorderItem" ->
           /\ InRange(w.rows[c.list_widget], c.to_index)
           /\ InsertPos(w.rows[c.list_widget], c.from_index)
      [] c.kind = "MoveItemBetweenLists" ->
           TransferInRange(w, c.to_list, c.to_item, c.from_list, c.from_item)
      [] c.kind = "MoveListToFront" ->
           InRange(w.tabs, 0) /\ InRange(w.tabs, c.list_index)
      [] c.kind = "AddItem" -> TRUE
      [] c.kind = "DeleteItem" -> InsertPos(w.rows[c.list_widget], c.item_index)
      [] c.kind = "RenameTab" -> InRange(w.tabs, c.index)

\* C23: whenever a command is executed, redone or undone, every list index and
\* row index it addresses exists at that moment; this includes the undo of a drop
\* made below the last row of the same list (to_index = count).
C23_IndicesInRange ==
    [][ /\ (index' = index + 1) => RedoInRange(stack'[index'], Window(App))
        /\ (index' = index - 1) => UndoInRange(stack[index], Window(App))
      ]_vars

\* C24: adding a list puts one new list without rows behind the last tab, under
\* the stripped name that was typed; the tabs and rows that existed keep their
\* position, name and rows; the stack and its index, the commands above the index
\* included, are untouched, and every command on the stack addresses the same
\* lists as before.
C24_AddListFrame ==
    [][ \A typed \in TypedNames : NewList(typed) =>
          /\ tabs' = Append(tabs, tabs'[Len(tabs')])
          /\ tabs'[Len(tabs')].label = strip(typed)
          /\ rows'[tabs'[Len(tabs')].widget] = <<>>
          /\ indexOf(Window(App), tabs'[Len(tabs')].widget) < 0
          /\ rows' = rows
          /\ app_data' = Append(app_data, [name |-> strip(typed), items |-> <<>>])
          /\ UNCHANGED <<stack, index>>
          /\ \A k \in 1..Len(stack) :
                Addressed(stack[k], WindowNext) = Addressed(stack[k], Window(App))
      ]_vars

\* a third list was added while a command was undone and can still be redone
C24_Witness ==
    /\ Len(tabs) = 3
    /\ rows[tabs[3].widget] = <<>>
    /\ 0 < index
    /\ index < Len(stack)
    /\ stack[index + 1].kind = "MoveItemBetweenLists"

\* the document the window was built from; app_data keeps it while no list is added
StartDocument ==
    [tabs |-> [k \in 1..Len(app_data) |-> [widget |-> k, label |-> app_data[k].name]],
     rows |-> [lw \in LwIds |-> IF lw <= Len(app_data) THEN app_data[lw].items ELSE <<>>]]

\* C25: after any gestures that each record a command, with undo and redo in
\* between, the document is the one the run started from whenever the index of
\* the stack is back at 0: same lists in the same order under the same names, same
\* rows in the same order.
C25_FullUnwind ==
    (Idle /\ others = 0 /\ index = 0) => Document = StartDocument

\* C26: when row i of list s is dragged and dropped on a row of another list, the
\* command that is recorded takes its item from list s, and list s loses exactly
\* row i, whatever other rows of the window carry the same text.
C26_DraggedItemRemoved ==
    [][ (focus = NoFocus /\ index' = index + 1) =>
          \A s \in LwIds, i, j \in Positions :
             CrossDrop(s, i, j) =>
                /\ stack'[index'].kind = "MoveItemBetweenLists"
                /\ stack'[index'].from_list = indexOf(Window(App), s)
                /\ rows'[s] = Without(rows[s], i)
      ]_vars

\* C27: a row dragged from index i of the current list s and dropped on the tab of
\* another list t records exactly one MoveItemBetweenLists command, from (s, i) to
\* index 0 of t: list s loses row i, list t gets its text as first row, nothing
\* else changes.  A drop on the tab of the list the drag came from, or of a payload
\* that comes from no list of this window, changes neither the document nor the
\* stack nor its index.
C27_DropOnTab ==
    [][ focus = NoFocus =>
          /\ \A i \in Positions, t \in 0..(MaxLists - 1) :
                TabDrop(i, t) =>
                   LET s == _current_list_widget
                       d == _list_widget_at(Window(App), t)
                       text == rows[s][i + 1]
                   IN  IF t = currentIndex
                       THEN UNCHANGED <<tabs, rows, stack, index>>
                       ELSE /\ index' = index + 1
                            /\ stack' = Append(SubSeq(stack, 1, index),
                                               MoveItemBetweenListsCommand(
                                                  currentIndex, i, t, 0, text))
                            /\ tabs' = tabs
                            /\ rows'[s] = Without(rows[s], i)
                            /\ rows'[d] = <<text>> \o rows[d]
                            /\ \A lw \in LwIds \ {s, d} : rows'[lw] = rows[lw]
          /\ \A text \in ForeignTexts, t \in 0..(MaxLists - 1) :
                ForeignTabDrop(text, t) => UNCHANGED <<tabs, rows, stack, index>>
      ]_vars

\* a row that was not the first of the current list was just dropped on the tab
\* of another list, which already had a row
C27_Witness ==
    /\ JustDone("MoveItemBetweenLists")
    /\ Applied.to_item = 0
    /\ Applied.from_item > 0
    /\ Applied.from_list = currentIndex
    /\ Len(rows[_list_widget_at(Window(App), Applied.to_list)]) = 2
    /\ AppliedShadow.pre.rows[_list_widget_at(Window(App), Applied.from_list)][Applied.from_item + 1]
         = Applied.text

\* the rows of the list widgets 1..n one after the other; s and t hold the same
\* texts the same number of times
RECURSIVE AllRows(_, _)
AllRows(r, n) == IF n = 0 THEN <<>> ELSE AllRows(r, n - 1) \o r[n]

SameBag(s, t) ==
    /\ Len(s) = Len(t)
    /\ \A k \in 1..Len(s) : Count(s, s[k]) = Count(t, s[k])

MoveKinds == {"MoveItemToTop", "ReorderItem", "MoveItemBetweenLists", "MoveListToFront"}

\* C28: when a move command (MoveItemToTop, ReorderItem, MoveItemBetweenLists,
\* MoveListToFront) is executed, undone or redone, the number of lists and the
\* texts of all rows of the document, counted with repetition, stay the same; a
\* move within a list and a move of a list keep this for every single list, and a
\* transfer makes the list it takes from one row shorter, the list it gives to one
\* row longer and leaves the length of every other list.  Checked for runs in
\* which every change so far was recorded as a command.
C28_Conservation ==
    [][ (others = 0 /\ (index' = index + 1 \/ index' = index - 1)) =>
          LET forward == index' > index
              c == IF forward THEN stack'[index'] ELSE stack[index]
          IN  c.kind \in MoveKinds =>
                 /\ Len(tabs') = Len(tabs)
                 /\ SameBag(AllRows(rows', MaxLists), AllRows(rows, MaxLists))
                 /\ c.kind # "MoveItemBetweenLists" =>
                       \A lw \in LwIds : SameBag(rows'[lw], rows[lw])
                 /\ c.kind = "MoveItemBetweenLists" =>
                       LET f == _list_widget_at(Window(App), c.from_list)
                           t == _list_widget_at(Window(App), c.to_list)
                           src == IF forward THEN f ELSE t
                           dst == IF forward THEN t ELSE f
                       IN  /\ Len(rows'[src]) = Len(rows[src]) - 1
                           /\ Len(rows'[dst]) = Len(rows[dst]) + 1
                           /\ \A lw \in LwIds \ {src, dst} : Len(rows'[lw]) = Len(rows[lw])
      ]_vars

\* C29: a gesture that leaves the document as it is records no command: promoting
\* the row at index 0, and dropping a row of the current list on the row directly
\* below it, leave the stack and its index untouched.
C29_NoCommandWithoutChange ==
    [][ (focus = NoFocus /\ Document' = Document) =>
          \A i \in Positions :
             (Promote(0) \/ DropSameList(i, i + 1)) => UNCHANGED <<stack, index>>
      ]_vars

\* C30: the window starts with at least one list, also when the stored document
\* has none, and no step of the program, undo and redo included, makes the number
\* of lists smaller.
C30_ListsNeverDestroyed ==
    /\ Len(tabs) >= 1
    /\ [][Len(tabs') >= Len(tabs)]_vars

\* started without a stored document: a list was added to the seeded one, moved
\* to the front, and the move was undone
C30_Witness ==
    /\ file = NoFile
    /\ Len(tabs) = 2
    /\ tabs[1].label = MyList
    /\ JustUndone("MoveListToFront")

====
